---- MODULE Spec2Model ----
(***************************************************************************)
(* Model of src/src/backup-tool.ts (the revision that zips, lines 1-223,   *)
(* whose gracefulShutdown is the one spelled out at lines 395-414).        *)
(*                                                                         *)
(* Node runs the program on one thread: code between two awaits is atomic, *)
(* and a signal handler runs only while main is suspended in an await.     *)
(* pc names the await main is suspended in; every action is the settling   *)
(* of that await together with the synchronous code that follows it, up to *)
(* the next await or process.exit.                                         *)
(***************************************************************************)
EXTENDS Integers, Sequences, FiniteSets, TLC

VARIABLES
    argv,                 \* the flags given on the command line
    env,                  \* which of SERVER_URL / SERVER_PASSWORD are set
    password,             \* the value of SERVER_PASSWORD in each of two runs
                          \* ("" also when it is not set: both are falsy)
    out,                  \* the messages each of the two runs has printed
    pc,                   \* the await main is suspended in
    hpc,                  \* gracefulShutdown: "idle" or awaiting api.shutdown()
    isShuttingDown,       \* the module-level flag
    exited,               \* process.exit has run
    exitCode,             \* its argument (NoCode before)
    dirExists,            \* the backup directory exists
    fs,                   \* the entries of the backup directory
    entries,              \* cleanBackupDir: entries still to remove
    downloadedBudgetPath, \* main's local (NULL before the locate step)
    zipFilePath,          \* createDatedZip's local (NULL before it runs)
    zipDate,              \* the new Date() createDatedZip read (NoDate before)
    dataDir,              \* the dataDir given to api.init (NULL before the call)
    before,               \* the backup directory as the run found it
    calls,                \* how often each operation has been invoked
    hist,                 \* what the settled operations reported
    signals               \* number of SIGINT/SIGTERM delivered so far

vars == <<argv, env, password, out, pc, hpc, isShuttingDown, exited, exitCode, dirExists, fs,
          entries, downloadedBudgetPath, zipFilePath, zipDate, dataDir, before,
          calls, hist, signals>>

\* ------------------------------------------------------------------ bounds
MaxSignals == 2

\* --------------------------------------------------------------- constants
NULL == <<>>
NoCode == -1
NoDate == [year |-> 0, month |-> 0, day |-> 0]

\* The program is run twice on the same command line, environment, directory
\* and outcomes of the external calls; only the value of SERVER_PASSWORD may
\* differ.  The state is that of run 1; run 2 is followed through what it
\* prints, for as long as it takes the branches run 1 takes.
Runs == {1, 2}

\* Values SERVER_PASSWORD can be set to (a variable can be set to "").
Passwords == {"", "hunter2", "swordfish"}

\* argv.syncId and process.env.SERVER_URL
syncId == "9c2c8a4e"
serverURL == "https://actual.example"

\* What a rejected external call throws (err.code, err.message).
Errors == {"EACCES", "network-failure"}

\* path.resolve(backupDir), as a sequence of path components
resolvedBackupDir == <<"backup">>

Ops == {"resolve", "clean", "init", "download", "locate", "shutdown",
        "handlerShutdown", "zip", "delete"}

Flags == {"sync-id", "backup-filename"}

\* What the settled operations reported (the history the properties refer to).
Facts == {"argsRejected", "envMissing", "mkdirFailed", "accessFailed",
          "cleanFailed", "initOK", "initFailed", "downloadOK", "downloadFailed",
          "scanUnreadable", "scanNotOne", "located", "shutdownOK",
          "shutdownFailed", "zipOK", "zipFailed", "deleteOK", "deleteFailed",
          "handlerFirst", "signalIgnored", "secondSignalWhilePending"}

\* The run dates considered: [year, month (0-indexed, as getMonth()), day].
Dates == { [year |-> 2025, month |-> 3, day |-> 8],
           [year |-> 2024, month |-> 11, day |-> 31] }

\* Contents the server's budget export consists of.
BudgetFiles == {"db.sqlite", "metadata.json"}

\* An entry of the backup directory.  name is a sequence of string tokens.
Entry(n, k, f, p) == [name |-> n, kind |-> k, files |-> f, partial |-> p]

\* A downloaded budget folder n; files holds the paths of its files, relative
\* to the backup directory.
BudgetDir(n) == Entry(<<n>>, "dir", { <<n, f>> : f \in BudgetFiles }, FALSE)

\* What api.downloadBudget can write below dataDir.
DownloadDirs == { BudgetDir("My-Finances-7a1809d"), BudgetDir("Other-1b2c3d4") }
StrayFile == Entry(<<"stray.txt">>, "file", {}, FALSE)
DownloadOutcomes == { D \cup S : D \in SUBSET DownloadDirs, S \in {{}, {StrayFile}} }

\* What an earlier run may have left in the backup directory.
OldArchive == Entry(<<"2", "0", "2", "5", "-", "0", "4", "-", "0", "7", " ",
                      "My-Finances-7a1809d", ".zip">>,
                    "file", { <<f>> : f \in BudgetFiles }, FALSE)
\* A budget folder an earlier, unfinished run left behind: same name as a
\* download of the same budget, but a different folder (only part of the files).
OldBudgetDir == Entry(<<"My-Finances-7a1809d">>, "dir",
                      { <<"My-Finances-7a1809d", "db.sqlite">> }, FALSE)
Leftovers == { OldArchive, OldBudgetDir }

\* ------------------------------------------------------------ pure helpers
Inc(c, op) == [c EXCEPT ![op] = @ + 1]

IsDirectory(e) == e.kind = "dir"

\* f.endsWith('.zip') on a file of the directory
IsArchive(e) == e.kind = "file" /\ e.name # <<>> /\ e.name[Len(e.name)] = ".zip"

Digit(n) == CASE n = 0 -> "0" [] n = 1 -> "1" [] n = 2 -> "2" [] n = 3 -> "3"
              [] n = 4 -> "4" [] n = 5 -> "5" [] n = 6 -> "6" [] n = 7 -> "7"
              [] n = 8 -> "8" [] n = 9 -> "9"

RECURSIVE NumToString(_)
NumToString(n) == IF n < 10 THEN <<Digit(n)>>
                  ELSE NumToString(n \div 10) \o <<Digit(n % 10)>>

\* s.padStart(2, '0')
PadStart2(s) == IF Len(s) < 2 THEN <<"0">> \o s ELSE s

\* getFormattedDate that takes getMonth() for the calendar month
getFormattedDateBad(date) ==
    NumToString(date.year) \o <<"-">> \o PadStart2(NumToString(date.month))
        \o <<"-">> \o PadStart2(NumToString(date.day))

\* getFormattedDate, lines 125-130
getFormattedDate(date) ==
    NumToString(date.year) \o <<"-">> \o PadStart2(NumToString(date.month + 1))
        \o <<"-">> \o PadStart2(NumToString(date.day))

\* `${dateStr} ${folderName}.zip`, folderName = path.basename(sourceDirPath)
zipFileName(date, sourceDirPath) ==
    getFormattedDate(date) \o <<" ">> \o sourceDirPath \o <<".zip">>

\* api.init given a per-run folder below the backup directory
InitDataDirNested(backupDir) == backupDir \o <<"workspace">>

\* line 53: the dataDir option of api.init, given main's resolvedBackupDir
InitDataDir(backupDir) == backupDir

\* entries.filter(entry => entry.isDirectory())
Directories(dir) == { e \in dir : IsDirectory(e) }

findCreatedBudgetDirBad(dir, readable) ==
    IF ~readable THEN NULL
    ELSE IF Directories(dir) # {}
         THEN (CHOOSE e \in Directories(dir) : TRUE).name
         ELSE NULL

\* findCreatedBudgetDir that counts the entries instead of the directories
findCreatedBudgetDirAllEntries(dir, readable) ==
    IF ~readable THEN NULL
    ELSE IF Cardinality(dir) = 1 /\ Directories(dir) # {}
         THEN (CHOOSE e \in Directories(dir) : TRUE).name
         ELSE NULL

\* The path findCreatedBudgetDir returns (NULL for null).
findCreatedBudgetDir(dir, readable) ==
    IF ~readable THEN NULL
    ELSE IF Cardinality(Directories(dir)) = 1
         THEN (CHOOSE e \in Directories(dir) : TRUE).name
         ELSE NULL

\* path.relative(base, p) for a p below base
Relative(base, p) == SubSeq(p, Len(base) + 1, Len(p))

\* addLocalFolder that keeps the folder's own name in the entry names
addLocalFolderNested(localPath, zipPath, files) == { zipPath \o p : p \in files }

\* zip.addLocalFolder(localPath, zipPath), lines 167-171: every file below
\* localPath becomes an entry named zipPath + its path relative to localPath
addLocalFolder(localPath, zipPath, files) ==
    { zipPath \o Relative(localPath, p) : p \in files }

\* the archive createDatedZip writes: addLocalFolder(sourceDirPath, '')
ZipOf(name, src, p) == Entry(name, "file", addLocalFolder(src.name, <<>>, src.files), p)

\* admZip.extractAllTo(target), backup-tool.test.ts line 154
extractAllTo(zip, target) == { target \o n : n \in zip.files }

\* What a download of w into the directory dir adds to the backup directory:
\* w itself when dir is the backup directory, else the folder holding it.
WrittenInto(dir, w) ==
    IF dir = resolvedBackupDir THEN w
    ELSE { Entry(<<dir[Len(dir)]>>, "dir", UNION { e.files : e \in w }, FALSE) }

SourceDir(dir, path) == CHOOSE e \in dir : e.name = path

\* fs.rm(path, {recursive: true}): a missing path is an error (ENOENT)
rmNoForce(dir, path) ==
    [fs |-> { e \in dir : e.name # path },
     error |-> \A e \in dir : e.name # path]

\* fs.rm(path, {recursive: true, force: true}) on the listing dir: what is
\* left, and whether the call rejects because of the path; with force a
\* missing path is ignored.
rm(dir, path) ==
    [fs |-> { e \in dir : e.name # path },
     error |-> FALSE]

\* --------------------------------------------------------------- the state
TypeOK ==
    /\ argv \subseteq Flags
    /\ env \subseteq {"SERVER_URL", "SERVER_PASSWORD"}
    /\ password \in [Runs -> Passwords]
    /\ out \in [Runs -> Seq(Seq(STRING))]
    /\ pc \in {"parse", "mkdir", "access", "cleanReaddir", "cleanRm", "init",
               "download", "locate", "shutdown", "zip", "delete"}
    /\ hpc \in {"idle", "shutdown", "settled"}
    /\ isShuttingDown \in BOOLEAN
    /\ exited \in BOOLEAN
    /\ exitCode \in {NoCode, 0, 1}
    /\ dirExists \in BOOLEAN
    /\ IsFiniteSet(fs)
    /\ entries \subseteq fs
    /\ calls \in [Ops -> Nat]
    /\ hist \subseteq Facts
    /\ signals \in 0..MaxSignals
    /\ zipDate \in Dates \cup {NoDate}
    /\ dataDir \in {NULL, resolvedBackupDir}
    /\ before.fs \subseteq Leftovers /\ before.dirExists \in BOOLEAN

Init ==
    /\ argv \in SUBSET Flags
    /\ env \in SUBSET {"SERVER_URL", "SERVER_PASSWORD"}
    /\ password \in (IF "SERVER_PASSWORD" \in env THEN [Runs -> Passwords]
                     ELSE {[r \in Runs |-> ""]})
    /\ out = [r \in Runs |-> <<>>]
    /\ pc = "parse"
    /\ hpc = "idle"
    /\ isShuttingDown = FALSE
    /\ exited = FALSE
    /\ exitCode = NoCode
    /\ dirExists \in BOOLEAN
    /\ fs \in SUBSET Leftovers
    /\ (~dirExists => fs = {})
    /\ entries = {}
    /\ downloadedBudgetPath = NULL
    /\ zipFilePath = NULL
    /\ zipDate = NoDate
    /\ dataDir = NULL
    /\ before = [dirExists |-> dirExists, fs |-> fs]
    /\ calls = [o \in Ops |-> 0]
    /\ hist = {}
    /\ signals = 0

\* ------------------------------------------------------------- the actions
\* process.exit(code)
Exit(code) == exited' = TRUE /\ exitCode' = code

NoExit == UNCHANGED <<exited, exitCode>>

\* yargs: demandOption on sync-id, and strict() with no option backup-filename
ArgsOK == "sync-id" \in argv /\ "backup-filename" \notin argv

\* line 38, negated: !serverURL || !password
EnvOK(pw) == "SERVER_URL" \in env /\ "SERVER_PASSWORD" \in env /\ pw # ""

\* Run 2 takes the branches run 1 takes, up to line 38 and beyond it when
\* both pass it: line 38 is the only branch on the password.
InStep == pc = "parse" \/ EnvOK(password[1]) = EnvOK(password[2])

\* console.log / console.warn / console.error of the messages ms, in order
Log(ms) == out' = [r \in Runs |-> IF r = 1 \/ InStep THEN out[r] \o ms ELSE out[r]]

\* What a run with SERVER_PASSWORD = pw prints up to the fs.mkdir of line 200
\* (the diagnostics of line 38 are those of lines 272-279).
ParseLog(pw) ==
    IF ~ArgsOK THEN << <<"yargs: missing required or unknown argument">> >>
    ELSE IF "SERVER_URL" \notin env
    THEN << <<"Error: Environment variable SERVER_URL is not set.">> >>
    ELSE IF ~EnvOK(pw)
    THEN << <<"Error: Environment variable SERVER_PASSWORD is not set.">> >>
    ELSE << <<"Using Sync ID: ", syncId>>,
            <<"Target Server URL: ", serverURL>>,
            <<"Ensuring base backup directory exists: ">> \o resolvedBackupDir >>

\* ------------------------------------------------- what the program prints
\* A message is the sequence of its text and the values put into it.

\* resolveAndVerifyBackupDir's catch (the one spelled out at lines 350-359)
PrepareFailedLog(err) ==
    << <<"Error accessing backup directory ">> \o resolvedBackupDir, <<err>> >>

\* lines 202 and 209-210
CleanStartLog ==
    << <<"Write access verified for base directory: ">> \o resolvedBackupDir,
       <<"Cleaning existing files/folders from base backup directory: ">>
           \o resolvedBackupDir,
       <<"WARNING: All contents will be removed before backup: ">>
           \o resolvedBackupDir >>

\* lines 216 and 51
CleanDoneLog ==
    << <<"Successfully cleaned base directory: ">> \o resolvedBackupDir,
       <<"Initializing Actual API...">> >>

\* cleanBackupDir's catch (the one spelled out at line 386)
CleanFailedLog(err) ==
    << <<"Error cleaning directory ">> \o resolvedBackupDir \o <<err>> >>

\* lines 57-59
InitDoneLog ==
    << <<"API Initialized successfully.">>,
       <<"Downloading budget for Sync ID: ", syncId>> >>

\* line 72: the catch prints the error it caught
ApiFailedLog(err) ==
    << <<"Error during Actual API operation or finding budget folder:", err>> >>

\* lines 61-64
DownloadDoneLog ==
    << <<"Budget downloaded successfully.">>,
       <<"Locating downloaded budget folder in ">> \o resolvedBackupDir >>

\* directories.map(d => d.name).join(', ')
RECURSIVE Names(_)
Names(S) == IF S = {} THEN <<>>
            ELSE LET e == CHOOSE x \in S : TRUE IN e.name \o Names(S \ {e})

\* findCreatedBudgetDir, lines 140-150
ScanLog(dir, readable, err) ==
    IF ~readable
    THEN << <<"Error reading base directory to find budget folder:", err>> >>
    ELSE IF Cardinality(Directories(dir)) = 0
    THEN << <<"No subdirectories found after download in ">> \o resolvedBackupDir >>
    ELSE IF Cardinality(Directories(dir)) > 1
    THEN << <<"Multiple subdirectories found in ">> \o resolvedBackupDir,
            <<"Found: ">> \o Names(Directories(dir)) >>
    ELSE <<>>

\* lines 67 and 72: the Error main throws, printed by the catch
NotFoundLog ==
    << <<"Error during Actual API operation or finding budget folder:",
         "Could not find the downloaded budget directory inside ">>
           \o resolvedBackupDir >>

\* line 69
FoundLog(path) == << <<"Found budget folder: ">> \o path >>

\* line 80
ShutdownStartLog == << <<"Shutting down Actual API connection...">> >>

\* lines 82 and 84
ShutdownDoneLog(ok, err) ==
    IF ok THEN << <<"API connection shut down.">> >>
    ELSE << <<"Error during final API shutdown:", err>> >>

\* lines 93 and 162
ZipStartLog(path, zp) ==
    << <<"Zipping budget folder: ">> \o path, <<"Creating zip: ">> \o zp >>

\* lines 95 and 97
ZipDoneLog(path, zp) ==
    << <<"Successfully created zip file: ">> \o zp,
       <<"Deleting original budget folder: ">> \o path >>

\* lines 176 and 102
ZipFailedLog(zp, err) ==
    << <<"Failed to create zip file at ">> \o zp \o <<err>>,
       <<"Error during zipping or cleanup:", err>> >>

\* lines 99 and 113
DeleteDoneLog ==
    << <<"Successfully deleted original folder.">>,
       <<"Backup process completed successfully.">> >>

\* lines 186 and 102
DeleteFailedLog(path, err) ==
    << <<"Failed to delete directory ">> \o path \o <<err>>,
       <<"Error during zipping or cleanup:", err>> >>

\* gracefulShutdown, line 398
SignalLog == << <<"Received signal. Attempting graceful shutdown...">> >>

\* gracefulShutdown, lines 404 and 409
HandlerDoneLog(ok, err) ==
    IF ok THEN << <<"API connection shut down successfully.">> >>
    ELSE << <<"Error during API shutdown on signal:", err>> >>


\* main without the environment check of line 38
main_parseNoEnvCheck ==
    /\ ~exited /\ pc = "parse"
    /\ IF "sync-id" \notin argv \/ "backup-filename" \in argv
       THEN /\ Exit(1)
            /\ hist' = hist \cup {"argsRejected"}
            /\ UNCHANGED <<pc, calls>>
       ELSE /\ pc' = "mkdir"
            /\ calls' = Inc(calls, "resolve")
            /\ NoExit
            /\ hist' = hist \cup (IF ~EnvOK(password[1])
                                  THEN {"envMissing"} ELSE {})
    /\ out' = [r \in Runs |-> out[r] \o ParseLog(password[r])]
    /\ UNCHANGED <<argv, env, password, before, dataDir, hpc, isShuttingDown, dirExists, fs, entries,
                   downloadedBudgetPath, zipFilePath, zipDate, signals>>

\* main whose parser accepts (and ignores) unknown flags: no .strict()
main_parseNotStrict ==
    /\ ~exited /\ pc = "parse"
    /\ IF "sync-id" \notin argv
       THEN /\ Exit(1)
            /\ hist' = hist \cup {"argsRejected"}
            /\ UNCHANGED <<pc, calls>>
       ELSE IF ~EnvOK(password[1])
       THEN /\ Exit(1)
            /\ hist' = hist \cup {"envMissing"}
            /\ UNCHANGED <<pc, calls>>
       ELSE /\ pc' = "mkdir"
            /\ calls' = Inc(calls, "resolve")
            /\ NoExit
            /\ UNCHANGED hist
    /\ out' = [r \in Runs |-> out[r] \o ParseLog(password[r])]
    /\ UNCHANGED <<argv, env, password, before, dataDir, hpc, isShuttingDown, dirExists, fs, entries,
                   downloadedBudgetPath, zipFilePath, zipDate, signals>>

\* main, lines 23-44: yargs rejects a missing --sync-id (demandOption) and an
\* unknown flag (strict) by exiting with 1; then the environment check; then
\* resolveAndVerifyBackupDir issues fs.mkdir.
main_parse ==
    /\ ~exited /\ pc = "parse"
    /\ IF ~ArgsOK
       THEN /\ Exit(1)
            /\ hist' = hist \cup {"argsRejected"}
            /\ UNCHANGED <<pc, calls>>
       ELSE IF ~EnvOK(password[1])
       THEN /\ Exit(1)
            /\ hist' = hist \cup {"envMissing"}
            /\ UNCHANGED <<pc, calls>>
       ELSE /\ pc' = "mkdir"
            /\ calls' = Inc(calls, "resolve")
            /\ NoExit
            /\ UNCHANGED hist
    /\ out' = [r \in Runs |-> out[r] \o ParseLog(password[r])]
    /\ UNCHANGED <<argv, env, password, before, dataDir, hpc, isShuttingDown, dirExists, fs, entries,
                   downloadedBudgetPath, zipFilePath, zipDate, signals>>

\* resolveAndVerifyBackupDir, line 200: fs.mkdir(resolvedPath, {recursive: true})
resolveAndVerifyBackupDir_mkdir ==
    /\ ~exited /\ pc = "mkdir"
    /\ \E ok \in BOOLEAN :
         IF ok
         THEN /\ dirExists' = TRUE
              /\ pc' = "access"
              /\ NoExit
              /\ UNCHANGED hist
              /\ Log(<<>>)
         ELSE /\ Exit(1)
              /\ hist' = hist \cup {"mkdirFailed"}
              /\ \E err \in Errors : Log(PrepareFailedLog(err))
              /\ UNCHANGED <<dirExists, pc>>
    /\ UNCHANGED <<argv, env, password, before, dataDir, hpc, isShuttingDown, fs, entries,
                   downloadedBudgetPath, zipFilePath, zipDate, calls, signals>>

\* resolveAndVerifyBackupDir whose catch logs the access failure and returns
resolveAndVerifyBackupDir_accessIgnored ==
    /\ ~exited /\ pc = "access"
    /\ \E ok \in BOOLEAN :
         /\ pc' = "cleanReaddir"
         /\ calls' = Inc(calls, "clean")
         /\ NoExit
         /\ hist' = hist \cup (IF ok THEN {} ELSE {"accessFailed"})
         /\ Log(CleanStartLog)
    /\ UNCHANGED <<argv, env, password, before, dataDir, hpc, isShuttingDown, dirExists, fs, entries,
                   downloadedBudgetPath, zipFilePath, zipDate, signals>>

\* resolveAndVerifyBackupDir, lines 201-204, then cleanBackupDir issues readdir
resolveAndVerifyBackupDir_access ==
    /\ ~exited /\ pc = "access"
    /\ \E ok \in BOOLEAN :
         IF ok
         THEN /\ pc' = "cleanReaddir"
              /\ calls' = Inc(calls, "clean")
              /\ NoExit
              /\ UNCHANGED hist
              /\ Log(CleanStartLog)
         ELSE /\ Exit(1)
              /\ hist' = hist \cup {"accessFailed"}
              /\ \E err \in Errors : Log(PrepareFailedLog(err))
              /\ UNCHANGED <<pc, calls>>
    /\ UNCHANGED <<argv, env, password, before, dataDir, hpc, isShuttingDown, dirExists, fs, entries,
                   downloadedBudgetPath, zipFilePath, zipDate, signals>>

\* main, lines 52-56: api.init({dataDir: resolvedBackupDir, ...}) is called
CallInit ==
    /\ pc' = "init"
    /\ calls' = Inc(calls, "init")
    /\ dataDir' = InitDataDir(resolvedBackupDir)

\* cleanBackupDir that lists the directory and removes nothing
cleanBackupDir_readdirKeepsAll ==
    /\ ~exited /\ pc = "cleanReaddir"
    /\ \E ok \in BOOLEAN :
         IF ok
         THEN /\ entries' = {}
              /\ CallInit
              /\ NoExit
              /\ UNCHANGED hist
              /\ Log(CleanDoneLog)
         ELSE /\ Exit(1)
              /\ hist' = hist \cup {"cleanFailed"}
              /\ \E err \in Errors : Log(CleanFailedLog(err))
              /\ UNCHANGED <<pc, calls, entries, dataDir>>
    /\ UNCHANGED <<argv, env, password, before, hpc, isShuttingDown, dirExists, fs,
                   downloadedBudgetPath, zipFilePath, zipDate, signals>>

\* cleanBackupDir, line 212: the readdir settles; with nothing to remove the
\* function returns and main calls api.init (line 52).
cleanBackupDir_readdir ==
    /\ ~exited /\ pc = "cleanReaddir"
    /\ \E ok \in BOOLEAN :
         IF ok
         THEN /\ entries' = fs
              /\ IF fs = {}
                 THEN CallInit
                 ELSE pc' = "cleanRm" /\ UNCHANGED <<calls, dataDir>>
              /\ NoExit
              /\ UNCHANGED hist
              /\ Log(IF fs = {} THEN CleanDoneLog ELSE <<>>)
         ELSE /\ Exit(1)
              /\ hist' = hist \cup {"cleanFailed"}
              /\ \E err \in Errors : Log(CleanFailedLog(err))
              /\ UNCHANGED <<pc, calls, entries, dataDir>>
    /\ UNCHANGED <<argv, env, password, before, hpc, isShuttingDown, dirExists, fs,
                   downloadedBudgetPath, zipFilePath, zipDate, signals>>

\* cleanBackupDir that lists the directory again when a removal fails
cleanBackupDir_rmRelists ==
    /\ ~exited /\ pc = "cleanRm"
    /\ \E e \in entries, ok \in BOOLEAN :
         IF ok
         THEN /\ fs' = fs \ {e}
              /\ entries' = entries \ {e}
              /\ IF entries \ {e} = {}
                 THEN CallInit
                 ELSE UNCHANGED <<pc, calls, dataDir>>
              /\ UNCHANGED hist
              /\ Log(IF entries \ {e} = {} THEN CleanDoneLog ELSE <<>>)
         ELSE /\ pc' = "cleanReaddir"
              /\ hist' = hist \cup {"cleanFailed"}
              /\ Log(<<>>)
              /\ UNCHANGED <<calls, fs, entries, dataDir>>
    /\ NoExit
    /\ UNCHANGED <<argv, env, password, before, hpc, isShuttingDown, dirExists,
                   downloadedBudgetPath, zipFilePath, zipDate, signals>>

\* cleanBackupDir whose fs.rm lacks {recursive: true}: folders stay
cleanBackupDir_rmFilesOnly ==
    /\ ~exited /\ pc = "cleanRm"
    /\ \E e \in entries, ok \in BOOLEAN :
         IF ok
         THEN /\ fs' = IF IsDirectory(e) THEN fs ELSE fs \ {e}
              /\ entries' = entries \ {e}
              /\ IF entries \ {e} = {}
                 THEN CallInit
                 ELSE UNCHANGED <<pc, calls, dataDir>>
              /\ NoExit
              /\ UNCHANGED hist
              /\ Log(IF pc' = "init" THEN CleanDoneLog ELSE <<>>)
         ELSE /\ Exit(1)
              /\ hist' = hist \cup {"cleanFailed"}
              /\ \E err \in Errors : Log(CleanFailedLog(err))
              /\ UNCHANGED <<pc, calls, fs, entries, dataDir>>
    /\ UNCHANGED <<argv, env, password, before, hpc, isShuttingDown, dirExists,
                   downloadedBudgetPath, zipFilePath, zipDate, signals>>

\* cleanBackupDir, lines 213-217: one fs.rm of the loop settles
cleanBackupDir_rm ==
    /\ ~exited /\ pc = "cleanRm"
    /\ \E e \in entries, ok \in BOOLEAN :
         IF ok
         THEN /\ fs' = fs \ {e}
              /\ entries' = entries \ {e}
              /\ IF entries \ {e} = {}
                 THEN CallInit
                 ELSE UNCHANGED <<pc, calls, dataDir>>
              /\ NoExit
              /\ UNCHANGED hist
              /\ Log(IF entries \ {e} = {} THEN CleanDoneLog ELSE <<>>)
         ELSE /\ Exit(1)
              /\ hist' = hist \cup {"cleanFailed"}
              /\ \E err \in Errors : Log(CleanFailedLog(err))
              /\ UNCHANGED <<pc, calls, fs, entries, dataDir>>
    /\ UNCHANGED <<argv, env, password, before, hpc, isShuttingDown, dirExists,
                   downloadedBudgetPath, zipFilePath, zipDate, signals>>

\* main that prints the options it gave to api.init when the call fails
api_initPrintsOptions ==
    /\ ~exited /\ pc = "init"
    /\ \E ok \in BOOLEAN :
         IF ok
         THEN /\ pc' = "download"
              /\ calls' = Inc(calls, "download")
              /\ hist' = hist \cup {"initOK"}
              /\ Log(InitDoneLog)
              /\ NoExit
         ELSE /\ Exit(1)
              /\ hist' = hist \cup {"initFailed"}
              /\ \E err \in Errors :
                   out' = [r \in Runs |->
                             IF r = 1 \/ InStep
                             THEN out[r] \o ApiFailedLog(err)
                                         \o << <<"options:", serverURL, password[r]>> >>
                             ELSE out[r]]
              /\ UNCHANGED <<pc, calls>>
    /\ UNCHANGED <<argv, env, password, before, dataDir, hpc, isShuttingDown, dirExists, fs, entries,
                   downloadedBudgetPath, zipFilePath, zipDate, signals>>

\* main that logs a failed api.init and goes on to the download
api_initIgnoresFailure ==
    /\ ~exited /\ pc = "init"
    /\ \E ok \in BOOLEAN :
         /\ pc' = "download"
         /\ calls' = Inc(calls, "download")
         /\ hist' = hist \cup (IF ok THEN {"initOK"} ELSE {"initFailed"})
         /\ Log(InitDoneLog)
         /\ NoExit
    /\ UNCHANGED <<argv, env, password, before, dataDir, hpc, isShuttingDown, dirExists, fs, entries,
                   downloadedBudgetPath, zipFilePath, zipDate, signals>>

\* main, lines 52-60 and the catch of lines 71-73: api.init settles.
\* process.exit in the catch block ends the process at once; the finally
\* block of lines 74-88 does not run.
api_init ==
    /\ ~exited /\ pc = "init"
    /\ \E ok \in BOOLEAN :
         IF ok
         THEN /\ pc' = "download"
              /\ calls' = Inc(calls, "download")
              /\ hist' = hist \cup {"initOK"}
              /\ Log(InitDoneLog)
              /\ NoExit
         ELSE /\ Exit(1)
              /\ hist' = hist \cup {"initFailed"}
              /\ \E err \in Errors : Log(ApiFailedLog(err))
              /\ UNCHANGED <<pc, calls>>
    /\ UNCHANGED <<argv, env, password, before, dataDir, hpc, isShuttingDown, dirExists, fs, entries,
                   downloadedBudgetPath, zipFilePath, zipDate, signals>>

\* main that tears the connection down right after the download, before
\* the locate step
api_downloadBudgetShutsDownFirst ==
    /\ ~exited /\ pc = "download"
    /\ \E w \in DownloadOutcomes, ok \in BOOLEAN :
         /\ fs' = fs \cup WrittenInto(dataDir, w)
         /\ IF ok
            THEN /\ pc' = "locate"
                 /\ isShuttingDown' = TRUE
                 /\ calls' = IF isShuttingDown THEN Inc(calls, "locate")
                              ELSE Inc(Inc(calls, "shutdown"), "locate")
                 /\ hist' = hist \cup {"downloadOK"}
                 /\ Log(DownloadDoneLog)
                 /\ NoExit
            ELSE /\ Exit(1)
                 /\ hist' = hist \cup {"downloadFailed"}
                 /\ \E err \in Errors : Log(ApiFailedLog(err))
                 /\ UNCHANGED <<pc, calls, isShuttingDown>>
    /\ UNCHANGED <<argv, env, password, before, dataDir, hpc, dirExists, entries,
                   downloadedBudgetPath, zipFilePath, zipDate, signals>>

\* main whose catch logs a failed download and goes on to the scan
api_downloadBudgetIgnoresFailure ==
    /\ ~exited /\ pc = "download"
    /\ \E w \in DownloadOutcomes, ok \in BOOLEAN :
         /\ fs' = fs \cup WrittenInto(dataDir, w)
         /\ pc' = "locate"
         /\ calls' = Inc(calls, "locate")
         /\ hist' = hist \cup (IF ok THEN {"downloadOK"} ELSE {"downloadFailed"})
         /\ Log(DownloadDoneLog)
         /\ NoExit
    /\ UNCHANGED <<argv, env, password, before, dataDir, hpc, isShuttingDown, dirExists, entries,
                   downloadedBudgetPath, zipFilePath, zipDate, signals>>

\* main, lines 60-65 and the catch: api.downloadBudget settles, having
\* written w below dataDir; on success findCreatedBudgetDir issues readdir.
api_downloadBudget ==
    /\ ~exited /\ pc = "download"
    /\ \E w \in DownloadOutcomes, ok \in BOOLEAN :
         /\ fs' = fs \cup WrittenInto(dataDir, w)
         /\ IF ok
            THEN /\ pc' = "locate"
                 /\ calls' = Inc(calls, "locate")
                 /\ hist' = hist \cup {"downloadOK"}
                 /\ Log(DownloadDoneLog)
                 /\ NoExit
            ELSE /\ Exit(1)
                 /\ hist' = hist \cup {"downloadFailed"}
                 /\ \E err \in Errors : Log(ApiFailedLog(err))
                 /\ UNCHANGED <<pc, calls>>
    /\ UNCHANGED <<argv, env, password, before, dataDir, hpc, isShuttingDown, dirExists, entries,
                   downloadedBudgetPath, zipFilePath, zipDate, signals>>

\* createDatedZip, lines 157-173, up to the await of writeZipPromise
StartZip(d, path) ==
    /\ pc' = "zip"
    /\ calls' = Inc(calls, "zip")
    /\ zipFilePath' = zipFileName(d, path)
    /\ zipDate' = d

\* main without the finally block: createDatedZip follows the locate step
main_locateSkipsFinally ==
    /\ ~exited /\ pc = "locate"
    /\ \E readable \in BOOLEAN, d \in Dates :
         LET found == findCreatedBudgetDir(fs, readable)
             seen  == (IF readable THEN {} ELSE {"scanUnreadable"})
                      \cup (IF readable /\ Cardinality(Directories(fs)) # 1
                            THEN {"scanNotOne"} ELSE {})
         IN  IF found = NULL
             THEN /\ Exit(1)
                  /\ hist' = hist \cup seen
                  /\ \E err \in Errors : Log(ScanLog(fs, readable, err) \o NotFoundLog)
                  /\ UNCHANGED <<pc, calls, downloadedBudgetPath, zipFilePath, zipDate>>
             ELSE /\ downloadedBudgetPath' = found
                  /\ hist' = hist \cup seen \cup {"located"}
                  /\ Log(FoundLog(found) \o ZipStartLog(found, zipFileName(d, found)))
                  /\ NoExit
                  /\ StartZip(d, found)
    /\ UNCHANGED <<argv, env, password, before, dataDir, hpc, isShuttingDown, dirExists, fs,
                   entries, signals>>

\* main, lines 65-94: the readdir of findCreatedBudgetDir settles.  A null
\* result throws into the catch (exit 1, no finally).  Otherwise the finally
\* block runs: it either claims the flag and awaits api.shutdown(), or skips
\* the teardown and main goes on into createDatedZip.
main_locate ==
    /\ ~exited /\ pc = "locate"
    /\ \E readable \in BOOLEAN, d \in Dates :
         LET found == findCreatedBudgetDir(fs, readable)
             seen  == (IF readable THEN {} ELSE {"scanUnreadable"})
                      \cup (IF readable /\ Cardinality(Directories(fs)) # 1
                            THEN {"scanNotOne"} ELSE {})
         IN  IF found = NULL
             THEN /\ Exit(1)
                  /\ hist' = hist \cup seen
                  /\ \E err \in Errors : Log(ScanLog(fs, readable, err) \o NotFoundLog)
                  /\ UNCHANGED <<pc, calls, isShuttingDown, downloadedBudgetPath,
                                 zipFilePath, zipDate>>
             ELSE /\ downloadedBudgetPath' = found
                  /\ hist' = hist \cup seen \cup {"located"}
                  /\ Log(FoundLog(found) \o (IF ~isShuttingDown THEN ShutdownStartLog
                                              ELSE ZipStartLog(found, zipFileName(d, found))))
                  /\ NoExit
                  /\ IF ~isShuttingDown
                     THEN /\ isShuttingDown' = TRUE
                          /\ pc' = "shutdown"
                          /\ calls' = Inc(calls, "shutdown")
                          /\ UNCHANGED <<zipFilePath, zipDate>>
                     ELSE /\ StartZip(d, found)
                          /\ UNCHANGED isShuttingDown
    /\ UNCHANGED <<argv, env, password, before, dataDir, hpc, dirExists, fs, entries, signals>>

\* a finally block that treats a failed api.shutdown() as fatal
finally_shutdownFatal ==
    /\ ~exited /\ pc = "shutdown"
    /\ \E ok \in BOOLEAN, d \in Dates :
         IF ok
         THEN /\ hist' = hist \cup {"shutdownOK"}
              /\ \E err \in Errors : Log(ShutdownDoneLog(ok, err) \o
                       ZipStartLog(downloadedBudgetPath, zipFileName(d, downloadedBudgetPath)))
              /\ StartZip(d, downloadedBudgetPath)
              /\ NoExit
         ELSE /\ hist' = hist \cup {"shutdownFailed"}
              /\ \E err \in Errors : Log(ShutdownDoneLog(ok, err))
              /\ Exit(1)
              /\ UNCHANGED <<pc, calls, zipFilePath, zipDate>>
    /\ UNCHANGED <<argv, env, password, before, dataDir, hpc, isShuttingDown, dirExists, fs, entries,
                   downloadedBudgetPath, signals>>

\* a finally block that clears the flag once its api.shutdown() has settled
finally_shutdownResets ==
    /\ ~exited /\ pc = "shutdown"
    /\ \E ok \in BOOLEAN, d \in Dates :
         /\ hist' = hist \cup (IF ok THEN {"shutdownOK"} ELSE {"shutdownFailed"})
         /\ \E err \in Errors : Log(ShutdownDoneLog(ok, err) \o
                                  ZipStartLog(downloadedBudgetPath, zipFileName(d, downloadedBudgetPath)))
         /\ StartZip(d, downloadedBudgetPath)
    /\ isShuttingDown' = FALSE
    /\ NoExit
    /\ UNCHANGED <<argv, env, password, before, dataDir, hpc, dirExists, fs, entries,
                   downloadedBudgetPath, signals>>

\* main, lines 81-94: api.shutdown() of the finally block settles; a failure
\* is caught and logged, and main goes on into createDatedZip either way.
finally_shutdown ==
    /\ ~exited /\ pc = "shutdown"
    /\ \E ok \in BOOLEAN, d \in Dates :
         /\ hist' = hist \cup (IF ok THEN {"shutdownOK"} ELSE {"shutdownFailed"})
         /\ \E err \in Errors : Log(ShutdownDoneLog(ok, err) \o
                                  ZipStartLog(downloadedBudgetPath, zipFileName(d, downloadedBudgetPath)))
         /\ StartZip(d, downloadedBudgetPath)
    /\ NoExit
    /\ UNCHANGED <<argv, env, password, before, dataDir, hpc, isShuttingDown, dirExists, fs, entries,
                   downloadedBudgetPath, signals>>

\* createDatedZip that writes the archive into the source folder
createDatedZipInsideSource ==
    /\ ~exited /\ pc = "zip"
    /\ \E ok \in BOOLEAN :
         LET src == SourceDir(fs, downloadedBudgetPath)
         IN  IF ok
             THEN /\ fs' = (fs \ {src})
                            \cup {[src EXCEPT !.files = @ \cup {src.name \o zipFilePath}]}
                  /\ hist' = hist \cup {"zipOK"}
                  /\ Log(ZipDoneLog(downloadedBudgetPath, zipFilePath))
                  /\ pc' = "delete"
                  /\ calls' = Inc(calls, "delete")
                  /\ NoExit
             ELSE /\ fs' = fs
                  /\ hist' = hist \cup {"zipFailed"}
                  /\ \E err \in Errors : Log(ZipFailedLog(zipFilePath, err))
                  /\ Exit(1)
                  /\ UNCHANGED <<pc, calls>>
    /\ UNCHANGED <<argv, env, password, before, dataDir, hpc, isShuttingDown, dirExists, entries,
                   downloadedBudgetPath, zipFilePath, zipDate, signals>>

\* createDatedZip that removes the source directory when the write fails
createDatedZipCleansUp ==
    /\ ~exited /\ pc = "zip"
    /\ \E ok \in BOOLEAN :
         LET src  == SourceDir(fs, downloadedBudgetPath)
             rest == { e \in fs : e.name # zipFilePath }
         IN  IF ok
             THEN /\ fs' = rest \cup {ZipOf(zipFilePath, src, FALSE)}
                  /\ hist' = hist \cup {"zipOK"}
                  /\ Log(ZipDoneLog(downloadedBudgetPath, zipFilePath))
                  /\ pc' = "delete"
                  /\ calls' = Inc(calls, "delete")
                  /\ NoExit
             ELSE /\ fs' = fs \ {src}
                  /\ hist' = hist \cup {"zipFailed"}
                  /\ \E err \in Errors : Log(ZipFailedLog(zipFilePath, err))
                  /\ Exit(1)
                  /\ UNCHANGED <<pc, calls>>
    /\ UNCHANGED <<argv, env, password, before, dataDir, hpc, isShuttingDown, dirExists, entries,
                   downloadedBudgetPath, zipFilePath, zipDate, signals>>

\* main that logs a failed createDatedZip and goes on to deleteSourceDir
createDatedZipSwallows ==
    /\ ~exited /\ pc = "zip"
    /\ \E ok \in BOOLEAN, partial \in BOOLEAN :
         LET src  == SourceDir(fs, downloadedBudgetPath)
             rest == { e \in fs : e.name # zipFilePath }
         IN  /\ ok => ~partial
             /\ fs' = IF ok \/ partial THEN rest \cup {ZipOf(zipFilePath, src, partial)}
                                       ELSE fs
             /\ hist' = hist \cup (IF ok THEN {"zipOK"} ELSE {"zipFailed"})
             /\ \E err \in Errors :
                  Log(IF ok THEN ZipDoneLog(downloadedBudgetPath, zipFilePath)
                      ELSE ZipFailedLog(zipFilePath, err))
             /\ pc' = "delete"
             /\ calls' = Inc(calls, "delete")
             /\ NoExit
    /\ UNCHANGED <<argv, env, password, before, dataDir, hpc, isShuttingDown, dirExists, entries,
                   downloadedBudgetPath, zipFilePath, zipDate, signals>>

\* createDatedZip, lines 173-178, and main, lines 95-105: writeZipPromise
\* settles.  On success the archive is in the backup directory and
\* deleteSourceDir issues fs.rm; on failure the error is re-thrown and main
\* exits with 1, the file at zipFilePath being absent or incomplete.
createDatedZip ==
    /\ ~exited /\ pc = "zip"
    /\ \E ok \in BOOLEAN, partial \in BOOLEAN :
         LET src  == SourceDir(fs, downloadedBudgetPath)
             rest == { e \in fs : e.name # zipFilePath }
         IN  IF ok
             THEN /\ ~partial
                  /\ fs' = rest \cup {ZipOf(zipFilePath, src, FALSE)}
                  /\ hist' = hist \cup {"zipOK"}
                  /\ Log(ZipDoneLog(downloadedBudgetPath, zipFilePath))
                  /\ pc' = "delete"
                  /\ calls' = Inc(calls, "delete")
                  /\ NoExit
             ELSE /\ fs' = IF partial THEN rest \cup {ZipOf(zipFilePath, src, TRUE)}
                                      ELSE fs
                  /\ hist' = hist \cup {"zipFailed"}
                  /\ \E err \in Errors : Log(ZipFailedLog(zipFilePath, err))
                  /\ Exit(1)
                  /\ UNCHANGED <<pc, calls>>
    /\ UNCHANGED <<argv, env, password, before, dataDir, hpc, isShuttingDown, dirExists, entries,
                   downloadedBudgetPath, zipFilePath, zipDate, signals>>

\* deleteSourceDir that reports success without removing anything
deleteSourceDirKeeps ==
    /\ ~exited /\ pc = "delete"
    /\ \E ok \in BOOLEAN :
         IF ok
         THEN /\ fs' = fs
              /\ hist' = hist \cup {"deleteOK"}
              /\ Log(DeleteDoneLog)
              /\ Exit(0)
         ELSE /\ fs' = fs
              /\ hist' = hist \cup {"deleteFailed"}
              /\ \E err \in Errors : Log(DeleteFailedLog(downloadedBudgetPath, err))
              /\ Exit(1)
    /\ UNCHANGED <<argv, env, password, before, dataDir, pc, hpc, isShuttingDown, dirExists, entries,
                   downloadedBudgetPath, zipFilePath, zipDate, calls, signals>>

\* deleteSourceDir whose failure is logged and swallowed
deleteSourceDirSwallows ==
    /\ ~exited /\ pc = "delete"
    /\ \E ok \in BOOLEAN :
         IF ok
         THEN /\ fs' = { e \in fs : e.name # downloadedBudgetPath }
              /\ hist' = hist \cup {"deleteOK"}
              /\ Log(DeleteDoneLog)
              /\ Exit(0)
         ELSE /\ fs' = fs
              /\ hist' = hist \cup {"deleteFailed"}
              /\ \E err \in Errors : Log(DeleteFailedLog(downloadedBudgetPath, err))
              /\ Exit(0)
    /\ UNCHANGED <<argv, env, password, before, dataDir, pc, hpc, isShuttingDown, dirExists, entries,
                   downloadedBudgetPath, zipFilePath, zipDate, calls, signals>>

\* deleteSourceDir, lines 182-189, and main, lines 99-114: fs.rm settles
\* (ok: no I/O error such as EACCES).
\* A failure is re-thrown into main's catch (exit 1); success ends in exit 0.
deleteSourceDir ==
    /\ ~exited /\ pc = "delete"
    /\ \E ok \in BOOLEAN :
         IF ok /\ ~rm(fs, downloadedBudgetPath).error
         THEN /\ fs' = rm(fs, downloadedBudgetPath).fs
              /\ hist' = hist \cup {"deleteOK"}
              /\ Log(DeleteDoneLog)
              /\ Exit(0)
         ELSE /\ fs' = fs
              /\ hist' = hist \cup {"deleteFailed"}
              /\ \E err \in Errors : Log(DeleteFailedLog(downloadedBudgetPath, err))
              /\ Exit(1)
    /\ UNCHANGED <<argv, env, password, before, dataDir, pc, hpc, isShuttingDown, dirExists, entries,
                   downloadedBudgetPath, zipFilePath, zipDate, calls, signals>>

\* gracefulShutdown, line 401: api && typeof api.shutdown === 'function'.
\* api is the imported module (line 3), whether or not api.init was called.
apiShutdownAvailable == TRUE

\* What a delivered signal adds to the history.
SignalFacts == (IF hpc = "shutdown" THEN {"secondSignalWhilePending"} ELSE {})
               \cup (IF isShuttingDown THEN {"signalIgnored"} ELSE {"handlerFirst"})

\* gracefulShutdown without the early return of line 396
gracefulShutdownNoGuard ==
    /\ ~exited /\ signals < MaxSignals
    /\ signals' = signals + 1
    /\ hist' = hist \cup SignalFacts
    /\ Log(SignalLog)
    /\ isShuttingDown' = TRUE
    /\ hpc' = "shutdown"
    /\ calls' = Inc(calls, "handlerShutdown")
    /\ NoExit
    /\ UNCHANGED <<argv, env, password, before, dataDir, pc, dirExists, fs, entries, downloadedBudgetPath,
                   zipFilePath, zipDate>>

\* gracefulShutdown that tests the flag of line 396 but never sets it
gracefulShutdownNoSet ==
    /\ ~exited /\ signals < MaxSignals
    /\ signals' = signals + 1
    /\ hist' = hist \cup SignalFacts
    /\ Log(IF isShuttingDown THEN <<>> ELSE SignalLog)
    /\ IF isShuttingDown
       THEN UNCHANGED <<hpc, calls>>
       ELSE /\ hpc' = "shutdown"
            /\ calls' = Inc(calls, "handlerShutdown")
    /\ NoExit
    /\ UNCHANGED <<argv, env, password, before, dataDir, pc, isShuttingDown, dirExists, fs, entries,
                   downloadedBudgetPath, zipFilePath, zipDate>>

\* gracefulShutdown, lines 395-413, run by the SIGINT/SIGTERM listeners of
\* lines 418-420 while main is suspended: return if the flag is set, else
\* claim it and await api.shutdown(); without an api.shutdown it would exit
\* at once.
gracefulShutdown ==
    /\ ~exited /\ signals < MaxSignals
    /\ signals' = signals + 1
    /\ hist' = hist \cup SignalFacts
    /\ IF isShuttingDown
       THEN /\ Log(<<>>)
            /\ NoExit
            /\ UNCHANGED <<isShuttingDown, hpc, calls>>
       ELSE IF apiShutdownAvailable
       THEN /\ isShuttingDown' = TRUE
            /\ hpc' = "shutdown"
            /\ calls' = Inc(calls, "handlerShutdown")
            /\ Log(SignalLog)
            /\ NoExit
       ELSE /\ isShuttingDown' = TRUE
            /\ hpc' = "settled"
            /\ Log(SignalLog \o
                   << <<"API not initialized or shutdown function unavailable.">> >>)
            /\ Exit(1)
            /\ UNCHANGED calls
    /\ UNCHANGED <<argv, env, password, before, dataDir, pc, dirExists, fs, entries, downloadedBudgetPath,
                   zipFilePath, zipDate>>

\* gracefulShutdown's exit that also removes the downloaded directories
gracefulShutdown_exitCleans ==
    /\ ~exited /\ hpc = "shutdown"
    /\ hpc' = "settled"
    /\ Exit(1)
    /\ \E ok \in BOOLEAN, err \in Errors : Log(HandlerDoneLog(ok, err))
    /\ fs' = fs \ Directories(fs)
    /\ UNCHANGED <<argv, env, password, before, dataDir, pc, isShuttingDown, dirExists, entries,
                   downloadedBudgetPath, zipFilePath, zipDate, calls, hist, signals>>

\* gracefulShutdown, lines 404-413: api.shutdown() settles (either way) and
\* the finally block exits with 1.
gracefulShutdown_exit ==
    /\ ~exited /\ hpc = "shutdown"
    /\ hpc' = "settled"
    /\ Exit(1)
    /\ \E ok \in BOOLEAN, err \in Errors : Log(HandlerDoneLog(ok, err))
    /\ UNCHANGED <<argv, env, password, before, dataDir, pc, isShuttingDown, dirExists, fs, entries,
                   downloadedBudgetPath, zipFilePath, zipDate, calls, hist, signals>>

Next ==
    \/ main_parse
    \/ resolveAndVerifyBackupDir_mkdir
    \/ resolveAndVerifyBackupDir_access
    \/ cleanBackupDir_readdir
    \/ cleanBackupDir_rm
    \/ api_init
    \/ api_downloadBudget
    \/ main_locate
    \/ finally_shutdown
    \/ createDatedZip
    \/ deleteSourceDir
    \/ gracefulShutdown
    \/ gracefulShutdown_exit

Spec == Init /\ [][Next]_vars

\* A pending external call settles: every step but the delivery of a signal.
Settle ==
    \/ main_parse
    \/ resolveAndVerifyBackupDir_mkdir
    \/ resolveAndVerifyBackupDir_access
    \/ cleanBackupDir_readdir
    \/ cleanBackupDir_rm
    \/ api_init
    \/ api_downloadBudget
    \/ main_locate
    \/ finally_shutdown
    \/ createDatedZip
    \/ deleteSourceDir
    \/ gracefulShutdown_exit

\* Every external call eventually returns or throws; signals may or may not
\* arrive.
FairSpec == Spec /\ WF_vars(Settle)

\* ------------------------------------------------------------ the properties
Archives == { e \in fs : IsArchive(e) }

ShutdownCalls == calls["shutdown"] + calls["handlerShutdown"]

BothEnv == {"SERVER_URL", "SERVER_PASSWORD"}

\* C1: a run with both variables set in which the download succeeded, the
\* locate step found exactly one directory, no signal was delivered and
\* neither createDatedZip nor deleteSourceDir failed exits with code 0, with
\* exactly one archive in the backup directory and no directory left in it.
C1_SuccessfulRun ==
    (/\ exited
     /\ "located" \in hist
     /\ signals = 0
     /\ "zipFailed" \notin hist
     /\ "deleteFailed" \notin hist)
    => /\ exitCode = 0
       /\ Cardinality(Archives) = 1
       /\ \A e \in Archives : e.name = zipFilePath /\ ~e.partial
       /\ Directories(fs) = {}

C1_Witness ==
    /\ exited /\ exitCode = 0 /\ signals = 0
    /\ env = BothEnv
    /\ {"initOK", "downloadOK", "located", "zipOK", "deleteOK"} \subseteq hist

\* C2: when the scan of findCreatedBudgetDir finds zero or several
\* directories, the run exits with code 1, createDatedZip is never called
\* and the backup directory holds no archive.
C2_NotExactlyOneDirectory ==
    "scanNotOne" \in hist
    => /\ exited /\ exitCode = 1
       /\ calls["zip"] = 0
       /\ Archives = {}

C2_Witness ==
    /\ exited /\ "scanNotOne" \in hist /\ "downloadOK" \in hist
    /\ Cardinality(Directories(fs)) > 1

\* C3: api.shutdown() is invoked at most once, whatever the interleaving of
\* main's finally block with gracefulShutdown.
C3_ShutdownAtMostOnce == ShutdownCalls <= 1

\* the handler claimed the flag first and main's finally block skipped the teardown
C3_Witness ==
    /\ "handlerFirst" \in hist /\ pc = "zip"
    /\ calls["handlerShutdown"] = 1 /\ calls["shutdown"] = 0

\* C4: when a second signal arrives while the first handler's api.shutdown()
\* is pending, exactly one api.shutdown() call is made in total.
C4_TwoSignalsOneShutdown ==
    "secondSignalWhilePending" \in hist => ShutdownCalls = 1

C4_Witness ==
    /\ "secondSignalWhilePending" \in hist /\ signals = 2 /\ exited

\* C5: when api.init, api.downloadBudget or the locate step fails,
\* api.shutdown() has been called exactly once when the process has exited.
C5_FatalErrorShutsDownOnce ==
    (exited /\ hist \cap {"initFailed", "downloadFailed", "scanUnreadable",
                          "scanNotOne"} # {})
    => ShutdownCalls = 1

\* C6: with SERVER_URL or SERVER_PASSWORD missing, no step creates or changes
\* the backup directory or calls resolveAndVerifyBackupDir, cleanBackupDir,
\* api.init or api.downloadBudget, and the exit code is 1.
C6_MissingEnvExitsFirst ==
    [][ env # BothEnv
        => /\ fs' = fs /\ dirExists' = dirExists
           /\ \A o \in {"resolve", "clean", "init", "download"} : calls'[o] = 0
           /\ (exited' => exitCode' = 1)
           /\ (pc = "parse" /\ pc' = pc) ]_vars

C6_Witness ==
    /\ "envMissing" \in hist /\ exited /\ exitCode = 1 /\ signals = 0

\* C7: a run in which a signal was delivered never exits with code 0.
C7_InterruptExitsWithOne ==
    (exited /\ signals > 0) => exitCode = 1

\* C8 (as claimed): after a run that fails at the locate step or in
\* createDatedZip, no downloaded directory exists in the backup directory.
C8_FailedRunLeavesNoData ==
    (exited /\ hist \cap {"scanNotOne", "zipFailed"} # {})
    => Directories(fs) = {}

\* C8 (amended): after a run that fails at the locate step or in
\* createDatedZip, deleteSourceDir has not been called and the downloaded
\* directories are still in the backup directory.
C8_FailedRunKeepsData ==
    (exited /\ hist \cap {"scanNotOne", "zipFailed"} # {})
    => /\ calls["delete"] = 0
       /\ ("zipFailed" \in hist
           => \E e \in Directories(fs) : e.name = downloadedBudgetPath)
       /\ ("scanNotOne" \in hist
           => Cardinality(Directories(fs)) # 1)

C8_Witness ==
    /\ exited /\ exitCode = 1 /\ "zipFailed" \in hist /\ signals = 0
    /\ Directories(fs) # {}

\* C9 (as claimed): when gracefulShutdown ends the process while a
\* downloaded directory is in the backup directory, a removal of it has
\* been attempted.
C9_InterruptRemovesData ==
    (exited /\ hpc = "settled" /\ "downloadOK" \in hist)
    => (Directories(fs) = {} \/ calls["delete"] > 0)

\* C9 (amended): no step of gracefulShutdown touches the backup directory or
\* calls deleteSourceDir; the handler only claims the flag, calls
\* api.shutdown() and exits with code 1.
C9_InterruptLeavesData ==
    [][ (signals' # signals \/ hpc' # hpc)
        => /\ fs' = fs
           /\ calls'["delete"] = calls["delete"]
           /\ (exited' => exitCode' = 1) ]_vars

C9_Witness ==
    /\ exited /\ hpc = "settled" /\ "downloadOK" \in hist
    /\ Directories(fs) # {} /\ calls["delete"] = 0

\* C10 (as claimed): when createDatedZip succeeded and deleteSourceDir
\* failed, the process exits with code 0 and the archive remains.
C10_DeleteFailureIsSuccess ==
    (exited /\ {"zipOK", "deleteFailed"} \subseteq hist)
    => /\ exitCode = 0
       /\ \E e \in Archives : e.name = zipFilePath

\* C10 (amended): when createDatedZip succeeded and deleteSourceDir failed,
\* the process exits with code 1; the archive remains.
C10_DeleteFailureExitsWithOne ==
    (exited /\ {"zipOK", "deleteFailed"} \subseteq hist)
    => /\ exitCode = 1
       /\ \E e \in Archives : e.name = zipFilePath /\ ~e.partial

C10_Witness ==
    /\ exited /\ {"zipOK", "deleteFailed"} \subseteq hist /\ signals = 0

\* C11 (as claimed): once isShuttingDown is set, main starts none of
\* api.downloadBudget, findCreatedBudgetDir, createDatedZip, deleteSourceDir.
C11_NoStepAfterFlag ==
    [][ isShuttingDown
        => \A o \in {"download", "locate", "zip", "delete"} : calls'[o] = calls[o] ]_vars

\* C11 (amended): when the finally block has set isShuttingDown, the download
\* and the locate step are over (main starts neither again) and main is in
\* the teardown, in createDatedZip or in deleteSourceDir, which it does
\* start after the flag was set.
C11_FlagSetAfterLocate ==
    calls["shutdown"] = 1
    => /\ pc \in {"shutdown", "zip", "delete"}
       /\ "located" \in hist
       /\ calls["download"] = 1 /\ calls["locate"] = 1
       /\ isShuttingDown

C11_Witness ==
    /\ calls["shutdown"] = 1 /\ isShuttingDown
    /\ pc = "delete" /\ calls["zip"] = 1 /\ calls["delete"] = 1

\* C12: the steps occur in a fixed order: api.init only after the backup
\* directory was created and verified, api.downloadBudget only after api.init
\* succeeded, findCreatedBudgetDir only after the download succeeded,
\* createDatedZip only after a path was found, deleteSourceDir only after
\* createDatedZip finished.
C12_FixedOrder ==
    /\ calls["init"] > 0 => (dirExists /\ calls["resolve"] = 1 /\ calls["clean"] = 1
                             /\ hist \cap {"mkdirFailed", "accessFailed"} = {})
    /\ calls["download"] > 0 => ("initOK" \in hist /\ calls["init"] = 1)
    /\ calls["locate"] > 0 => ("downloadOK" \in hist /\ calls["download"] = 1)
    /\ calls["zip"] > 0 => ("located" \in hist /\ downloadedBudgetPath # NULL
                            /\ calls["locate"] = 1)
    /\ calls["delete"] > 0 => ("zipOK" \in hist /\ calls["zip"] = 1)

C12_Witness ==
    /\ calls["delete"] = 1 /\ exited /\ "deleteOK" \in hist

\* C13 (as claimed): in a run without signals, api.shutdown() is called only
\* after createDatedZip has finished.
C13_ShutdownAfterZip ==
    (signals = 0 /\ calls["shutdown"] > 0)
    => hist \cap {"zipOK", "zipFailed"} # {}

\* C13 (amended): in a run without signals that reaches the archiving step,
\* api.shutdown() has been called and has settled before createDatedZip
\* starts: the teardown precedes archiving.
C13_ShutdownBeforeZip ==
    (signals = 0 /\ calls["zip"] > 0)
    => /\ calls["shutdown"] = 1
       /\ hist \cap {"shutdownOK", "shutdownFailed"} # {}

C13_Witness ==
    /\ signals = 0 /\ pc = "zip" /\ ~exited
    /\ calls["shutdown"] = 1 /\ hist \cap {"zipOK", "zipFailed"} = {}

\* The date as YYYY-MM-DD, written digit by digit.
TwoDigits(n) == <<Digit(n \div 10), Digit(n % 10)>>

FourDigits(n) == <<Digit(n \div 1000), Digit((n \div 100) % 10)>> \o TwoDigits(n % 100)

IsoDate(d) == FourDigits(d.year) \o <<"-">> \o TwoDigits(d.month + 1)
                  \o <<"-">> \o TwoDigits(d.day)

\* C14: the archive made from the folder N on the date D read in
\* createDatedZip is named "<D as YYYY-MM-DD> N.zip" and is an entry of the
\* backup directory itself.
C14_DatedName ==
    /\ zipFilePath # NULL
       => zipFilePath = IsoDate(zipDate) \o <<" ">> \o downloadedBudgetPath \o <<".zip">>
    /\ "zipOK" \in hist
       => \E e \in fs : e.kind = "file" /\ e.name = zipFilePath

C14_Witness ==
    /\ "zipOK" \in hist
    /\ zipDate = [year |-> 2025, month |-> 3, day |-> 8]
    /\ zipFilePath = <<"2", "0", "2", "5", "-", "0", "4", "-", "0", "8", " ",
                       "My-Finances-7a1809d", ".zip">>

\* the file name given with --backup-filename
BackupFilename == <<"custom.zip">>

\* C15 (as claimed): a run given --backup-filename F is accepted and its
\* archive is named F.
C15_FilenameOverride ==
    ({"sync-id", "backup-filename"} \subseteq argv /\ exited)
    => /\ "argsRejected" \notin hist
       /\ ("zipOK" \in hist => zipFilePath = BackupFilename)

\* C15 (amended): a run given --backup-filename is rejected by the argument
\* parser: it exits with code 1 before any filesystem or network step, and
\* no archive is written.
C15_FilenameRejected ==
    [][ "backup-filename" \in argv
        => /\ fs' = fs /\ dirExists' = dirExists
           /\ \A o \in Ops \ {"handlerShutdown"} : calls'[o] = 0
           /\ zipFilePath' = NULL
           /\ (exited' => exitCode' = 1) ]_vars

C15_Witness ==
    /\ argv = {"sync-id", "backup-filename"} /\ env = BothEnv
    /\ exited /\ exitCode = 1 /\ "argsRejected" \in hist /\ signals = 0

\* C16: the entries of the written archive are the files of the budget
\* folder under their paths relative to that folder (db.sqlite and
\* metadata.json at the root), and extracting it gives the folder's files.
C16_ArchiveRoundTrip ==
    "zipOK" \in hist
    => \A z \in fs : (z.kind = "file" /\ z.name = zipFilePath)
         => /\ z.files = { <<f>> : f \in BudgetFiles }
            /\ \A src \in Directories(fs) : src.name = downloadedBudgetPath
                 => /\ z.files = { Relative(src.name, p) : p \in src.files }
                    /\ extractAllTo(z, src.name) = src.files

C16_Witness ==
    /\ "zipOK" \in hist /\ pc = "delete" /\ ~exited
    /\ \E src \in Directories(fs) : src.name = downloadedBudgetPath
    /\ \E z \in fs : z.name = zipFilePath

\* C17: whatever an earlier run left in the backup directory, the download
\* starts on an empty directory, so the locate step sees exactly what the
\* download wrote and finds the folder when the download wrote one.
C17_LeftoversDoNotMatter ==
    [][ (pc = "download" /\ pc' = "locate")
        => /\ fs = {}
           /\ fs' \in DownloadOutcomes
           /\ (Cardinality(Directories(fs')) = 1
               => findCreatedBudgetDir(fs', TRUE) # NULL) ]_vars

C17_Witness ==
    /\ before.fs = Leftovers /\ "located" \in hist /\ signals = 0

\* C18: when writing the archive fails, the run exits with code 1 and no
\* file exists at the archive's path.
C18_NoPartialArchive ==
    (exited /\ "zipFailed" \in hist)
    => /\ exitCode = 1
       /\ ~ \E e \in fs : e.name = zipFilePath

\* C19: the removal of the budget folder removes that folder and nothing
\* else; the archive, an entry of the backup directory next to the folder,
\* is still there afterwards.
C19_ArchiveSurvivesDelete ==
    [][ (pc = "delete" /\ "deleteOK" \in hist')
        => /\ fs' = fs \ { e \in Directories(fs) : e.name = downloadedBudgetPath }
           /\ \E z \in fs' : IsArchive(z) /\ z.name = zipFilePath
           /\ \A z \in fs' : z.name # downloadedBudgetPath ]_vars

C19_Witness ==
    /\ exited /\ "deleteOK" \in hist
    /\ \E z \in fs : IsArchive(z) /\ z.name = zipFilePath
    /\ Directories(fs) = {}

\* C20 (as claimed): the dataDir given to api.init is a directory below the
\* backup directory that this run created, not the backup directory itself.
C20_FreshWorkspace ==
    calls["init"] > 0
    => /\ dataDir # resolvedBackupDir
       /\ Len(dataDir) > Len(resolvedBackupDir)
       /\ SubSeq(dataDir, 1, Len(resolvedBackupDir)) = resolvedBackupDir

\* C20 (amended): the dataDir given to api.init is the backup directory
\* itself, emptied by cleanBackupDir; it may be a directory an earlier run
\* used.
C20_DataDirIsBackupDir ==
    calls["init"] > 0
    => /\ dataDir = resolvedBackupDir
       /\ dirExists
       /\ (pc = "init" => fs = {})

C20_Witness ==
    /\ calls["init"] > 0 /\ dataDir = resolvedBackupDir
    /\ before.dirExists /\ before.fs = Leftovers

\* C21 (as claimed): once the environment check is passed, nothing that was in
\* the backup directory before the run is there when the run has ended,
\* whether it succeeded or failed.
C21_NothingOldAfterRun ==
    (exited /\ calls["resolve"] > 0) => fs \cap before.fs = {}

\* C21 (amended): a run that reaches api.init has removed every entry that was
\* in the backup directory, the directory itself kept and empty at the call;
\* from then on nothing that was there before the run exists.  A run that
\* ends before cleanBackupDir has finished may leave earlier entries.
C21_CleanBeforeInit ==
    calls["init"] > 0
    => /\ dirExists
       /\ fs \cap before.fs = {}
       /\ \A e \in fs : e \in DownloadDirs \cup {StrayFile} \/ e.name = zipFilePath
       /\ (calls["download"] = 0 => fs = {})

C21_Witness ==
    /\ exited /\ calls["init"] > 0
    /\ before.fs = Leftovers
    /\ "zipFailed" \in hist /\ Directories(fs) # {}

\* What resolveAndVerifyBackupDir and cleanBackupDir record when they fail.
PrepareFailures == {"mkdirFailed", "accessFailed", "cleanFailed"}

C23_DownloadFailureStopsRun ==
    hist \cap {"initFailed", "downloadFailed"} # {}
    => /\ exited /\ exitCode = 1
       /\ calls["locate"] = 0 /\ calls["zip"] = 0 /\ calls["delete"] = 0
       /\ Archives = {}

C23_Witness ==
    /\ exited /\ "downloadFailed" \in hist
    /\ before.fs = Leftovers /\ Cardinality(Directories(fs)) = 1

\* C24: isShuttingDown is false when the program starts and no step takes it
\* from true back to false.
C24_FlagOnlyRises ==
    /\ ~isShuttingDown
    /\ [][isShuttingDown => isShuttingDown']_vars

C24_Witness ==
    /\ isShuttingDown /\ pc = "delete" /\ signals > 0
    /\ "shutdownOK" \in hist

\* The message m contains the string pw.
Contains(m, pw) == \E k \in 1..Len(m) : m[k] = pw

\* No message a run printed contains that run's password.
PasswordNotPrinted ==
    \A r \in Runs : password[r] # ""
        => \A i \in 1..Len(out[r]) : ~Contains(out[r][i], password[r])

C26_ExactlyOneDirectory ==
    [][ (pc = "locate" /\ hpc' = hpc /\ signals' = signals)
        => LET dirs == Directories(fs)
               one  == Cardinality(dirs) = 1 /\ "scanUnreadable" \notin hist'
           IN  /\ (downloadedBudgetPath' # NULL) <=> one
               /\ one => \E e \in dirs : downloadedBudgetPath' = e.name ]_vars

C26_Witness ==
    /\ "located" \in hist
    /\ downloadedBudgetPath = <<"Other-1b2c3d4">>
    /\ StrayFile \in fs

\* The paths deleteSourceDir is tried on: those of the entries, the one main
\* gave it, and one that never existed.
Paths == ({ e.name : e \in fs \cup before.fs } \cup {downloadedBudgetPath, <<"missing">>})
             \ {NULL}

\* C27: removing a path that does not exist succeeds and changes nothing, and
\* removing a path twice leaves what removing it once leaves; in particular
\* deleteSourceDir can be repeated after it has removed the data directory.
C27_DeleteIsIdempotent ==
    /\ \A p \in Paths :
         LET once  == rm(fs, p)
             twice == rm(once.fs, p)
         IN  /\ ~once.error /\ ~twice.error
             /\ twice.fs = once.fs
             /\ (\A e \in fs : e.name # p) => once.fs = fs
    /\ "deleteOK" \in hist => rm(fs, downloadedBudgetPath) = [fs |-> fs, error |-> FALSE]

C27_Witness ==
    /\ exited /\ "deleteOK" \in hist
    /\ \A e \in fs : e.name # downloadedBudgetPath
    /\ Archives # {}

C29_DeleteOnlyAfterZip ==
    /\ calls["delete"] > 0 => ("zipOK" \in hist /\ "zipFailed" \notin hist)
    /\ "zipFailed" \in hist
       => /\ calls["delete"] = 0
          /\ exited
          /\ \E e \in Directories(fs) :
               e.name = downloadedBudgetPath /\ e \in DownloadDirs

C29_Witness ==
    /\ exited /\ "zipFailed" \in hist
    /\ \E a \in Archives : a.partial
    /\ \E e \in Directories(fs) : e.name = downloadedBudgetPath

\* C30: when a signal handler was the first to set isShuttingDown, the
\* process exits with code 1, never with 0.
C30_HandlerFirstExitsWithOne ==
    (exited /\ "handlerFirst" \in hist) => exitCode = 1

\* C31: once api.shutdown() has been called, by the finally block or by
\* gracefulShutdown, no step exits the process before that call has settled:
\* a step that exits while the handler's call is pending is the settling of
\* that call, and no step exits while main's call is pending.
C31_NoExitDuringTeardown ==
    [][ (~exited /\ exited')
        => /\ pc # "shutdown"
           /\ hpc = "shutdown" => hpc' = "settled" ]_vars

\* C32: api.shutdown() is called only in runs in which api.init() has been
\* called before.
C32_ShutdownOnlyAfterInit ==
    ShutdownCalls > 0 => calls["init"] > 0

\* C33: provided every external call eventually returns or throws, every run
\* reaches process.exit with code 0 or 1, however signals interleave with
\* main.
C33_EveryRunTerminates == <>(exited /\ exitCode \in {0, 1})

C33_Witness ==
    /\ exited /\ exitCode = 1
    /\ signals = MaxSignals /\ hpc = "settled"
    /\ "zipOK" \in hist

\* C34: a failed api.shutdown() in main's finally block does not end the run:
\* main has gone on into createDatedZip, and when the run has ended with
\* code 1 it was createDatedZip or deleteSourceDir that failed; otherwise it
\* ended with code 0, archive written and data directory removed.
C34_ShutdownFailureNotFatal ==
    "shutdownFailed" \in hist
    => /\ pc \in {"zip", "delete"} /\ calls["zip"] = 1
       /\ exited => \/ exitCode = 1 /\ hist \cap {"zipFailed", "deleteFailed"} # {}
                    \/ exitCode = 0 /\ {"zipOK", "deleteOK"} \subseteq hist

C34_Witness ==
    /\ exited /\ exitCode = 0 /\ signals = 0
    /\ {"shutdownFailed", "zipOK", "deleteOK"} \subseteq hist
    /\ Archives # {} /\ Directories(fs) = {}

====
